---- MODULE Spec2Model ----
(***************************************************************************)
(* Model of crypto_data_ingestion:                                         *)
(*   storage.py          LocalStorage (MinIO object store adapter)         *)
(*   data_operations.py  DataProcessing (DuckDB session, Delta Lake I/O)   *)
(*   src/api.py          CoinGeckoAPIClient                                *)
(* Each component has its own specification; the variables of the other    *)
(* components stay at their initial value.                                 *)
(***************************************************************************)
EXTENDS Integers, Sequences, FiniteSets, TLC

(***************************************************************************)
(* Input domains                                                           *)
(***************************************************************************)
MaxLen == 1

MaxObjects == 1

Buckets == {"b1", "b2"}

Keys == {"k1", "k2"}

Byte == {0, 1}

ByteSeqs == UNION {[1..n -> Byte] : n \in 0..MaxLen}

Lengths == 0..(MaxLen + 1)

Formats == {"csv", "parquet", "json", "xml", "CSV"}

VARIABLES
    buckets,     \* MinIO: the set of existing buckets
    objects,     \* MinIO: partial function <<bucket, key>> -> stored bytes
    conns,       \* number of HTTP responses opened by get_object and not yet released
    lastOp,      \* the last LocalStorage / read_raw_data call and its outcome
    tables,      \* DuckDB: partial function table name -> dataset
    temp_df,     \* DuckDB: the registered view 'temp_df' (<<>> when unregistered)
    lastSql,     \* the last DataProcessing session call and its outcome
    log,         \* Delta Lake: table path -> sequence of commits (_delta_log)
    lastDelta,   \* the last save_delta_table / read_delta_table call and its outcome
    lastApi      \* the last CoinGeckoAPIClient.get_data call and its outcome

vars == <<buckets, objects, conns, lastOp, tables, temp_df, lastSql,
          log, lastDelta, lastApi>>

storageVars == <<buckets, objects, conns, lastOp>>

engineVars == <<tables, temp_df, lastSql>>

deltaVars == <<log, lastDelta>>

apiVars == <<lastApi>>

(***************************************************************************)
(* storage.py : LocalStorage over the MinIO client                         *)
(***************************************************************************)
NoOp == [op |-> "none", bucket |-> "", key |-> "", fmt |-> "", data |-> <<>>,
         length |-> 0, found |-> FALSE, result |-> "none", content |-> <<>>,
         opened |-> 0, netCalls |-> <<>>]

\* Minio.bucket_exists(bucket_name)
bucket_exists(bks, b) == b \in bks

\* Minio.make_bucket(bucket_name): the server refuses a bucket that exists.
make_bucket(bks, b) ==
    IF b \in bks THEN [result |-> "BucketAlreadyOwnedByYou", buckets |-> bks]
    ELSE [result |-> "Ok", buckets |-> bks \cup {b}]

\* Minio.put_object(bucket, key, data, length, content_type): reads exactly
\* `length` bytes from the stream and stores them; a stream holding fewer
\* bytes is an error and nothing is stored.
put_object(objs, b, k, data, length) ==
    IF length > Len(data) THEN [result |-> "IOError", objects |-> objs]
    ELSE [result |-> "Ok",
          objects |-> (<<b, k>> :> SubSeq(data, 1, length)) @@ objs]

\* Minio.get_object(bucket, key): opens an HTTP response on the object.
get_object(objs, b, k) ==
    IF <<b, k>> \in DOMAIN objs
    THEN [result |-> "Ok", body |-> objs[<<b, k>>]]
    ELSE [result |-> "NoSuchKey", body |-> <<>>]

\* LocalStorage.create_bucket without the bucket_exists guard.
CreateBucket_NoExistsCheck(bks, b) ==
    LET r == make_bucket(bks, b)
    IN [result |-> r.result, found |-> FALSE, buckets |-> r.buckets,
        netCalls |-> <<"make_bucket">>]

\* LocalStorage.create_bucket
CreateBucket(bks, b) ==
    LET found == bucket_exists(bks, b)
    IN IF ~found
       THEN LET r == make_bucket(bks, b)
            IN [result |-> r.result, found |-> found, buckets |-> r.buckets,
                netCalls |-> <<"bucket_exists", "make_bucket">>]
       ELSE [result |-> "Ok", found |-> found, buckets |-> bks,
             netCalls |-> <<"bucket_exists">>]

\* LocalStorage.save_raw_data that provisions a missing bucket instead of failing.
SaveRawData_AutoCreate(bks, objs, b, k, data, length) ==
    LET r == put_object(objs, b, k, data, length)
    IN [result |-> r.result, found |-> bucket_exists(bks, b),
        buckets |-> bks \cup {b}, objects |-> r.objects,
        netCalls |-> <<"bucket_exists", "make_bucket", "put_object">>]

\* LocalStorage.save_raw_data that ignores `length` and stores one byte less.
SaveRawData_Truncate(bks, objs, b, k, data, length) ==
    LET found == bucket_exists(bks, b)
    IN IF ~found
       THEN [result |-> "BucketNotFound", found |-> found, buckets |-> bks,
             objects |-> objs, netCalls |-> <<"bucket_exists">>]
       ELSE LET r == put_object(objs, b, k, data,
                                IF length > 0 /\ length <= Len(data)
                                THEN length - 1 ELSE length)
            IN [result |-> r.result, found |-> found, buckets |-> bks,
                objects |-> r.objects,
                netCalls |-> <<"bucket_exists", "put_object">>]

\* LocalStorage.save_raw_data
SaveRawData(bks, objs, b, k, data, length) ==
    LET found == bucket_exists(bks, b)
    IN IF ~found
       THEN [result |-> "BucketNotFound", found |-> found, buckets |-> bks,
             objects |-> objs, netCalls |-> <<"bucket_exists">>]
       ELSE LET r == put_object(objs, b, k, data, length)
            IN [result |-> r.result, found |-> found, buckets |-> bks,
                objects |-> r.objects,
                netCalls |-> <<"bucket_exists", "put_object">>]

\* LocalStorage.get_object_data whose close/release_conn are not in a finally
\* block: they are skipped when data.read() raises.
GetObjectData_NoFinally(bks, objs, b, k, readOk) ==
    LET found == bucket_exists(bks, b)
    IN IF ~found
       THEN [result |-> "BucketNotFound", found |-> found, content |-> <<>>,
             opened |-> 0, released |-> 0, netCalls |-> <<"bucket_exists">>]
       ELSE LET data == get_object(objs, b, k)
            IN IF data.result # "Ok"
               THEN [result |-> data.result, found |-> found,
                     content |-> <<>>, opened |-> 0, released |-> 0,
                     netCalls |-> <<"bucket_exists", "get_object">>]
               ELSE IF readOk
               THEN [result |-> "Ok", found |-> found, content |-> data.body,
                     opened |-> 1, released |-> 1,
                     netCalls |-> <<"bucket_exists", "get_object">>]
               ELSE [result |-> "ReadError", found |-> found,
                     content |-> <<>>, opened |-> 1, released |-> 0,
                     netCalls |-> <<"bucket_exists", "get_object">>]

\* LocalStorage.get_object_data that hands back the bucket check's failure as
\* an empty buffer.
GetObjectData_NoBucketError(bks, objs, b, k, readOk) ==
    LET found == bucket_exists(bks, b)
        data == get_object(objs, b, k)
    IN IF ~found
       THEN [result |-> "Ok", found |-> found, content |-> <<>>,
             opened |-> 0, released |-> 0, netCalls |-> <<"bucket_exists">>]
       ELSE IF data.result # "Ok"
       THEN [result |-> data.result, found |-> found, content |-> <<>>,
             opened |-> 0, released |-> 0,
             netCalls |-> <<"bucket_exists", "get_object">>]
       ELSE [result |-> IF readOk THEN "Ok" ELSE "ReadError", found |-> found,
             content |-> IF readOk THEN data.body ELSE <<>>,
             opened |-> 1, released |-> 1,
             netCalls |-> <<"bucket_exists", "get_object">>]

\* LocalStorage.get_object_data.  readOk: whether data.read() returns or
\* raises; the finally block closes and releases the response either way.
GetObjectData(bks, objs, b, k, readOk) ==
    LET found == bucket_exists(bks, b)
    IN IF ~found
       THEN [result |-> "BucketNotFound", found |-> found, content |-> <<>>,
             opened |-> 0, released |-> 0, netCalls |-> <<"bucket_exists">>]
       ELSE LET data == get_object(objs, b, k)
            IN IF data.result # "Ok"
               THEN [result |-> data.result, found |-> found,
                     content |-> <<>>, opened |-> 0, released |-> 0,
                     netCalls |-> <<"bucket_exists", "get_object">>]
               ELSE [result |-> IF readOk THEN "Ok" ELSE "ReadError",
                     found |-> found,
                     content |-> IF readOk THEN data.body ELSE <<>>,
                     opened |-> 1, released |-> 1,
                     netCalls |-> <<"bucket_exists", "get_object">>]

SupportedFormats == {"csv", "parquet", "json"}

\* DataProcessing.read_raw_data: the object is fetched first, the extension
\* is dispatched on afterwards.  parseOk: whether the DuckDB reader accepts
\* the bytes.
ReadRawData(bks, objs, fmt, b, k, readOk, parseOk) ==
    LET response == GetObjectData(bks, objs, b, k, readOk)
    IN IF response.result # "Ok"
       THEN response
       ELSE IF fmt \in SupportedFormats
       THEN [response EXCEPT !.result = IF parseOk THEN "Ok" ELSE "ParseError"]
       ELSE [response EXCEPT !.result = "ValueError", !.content = <<>>]

create_bucket ==
    \E b \in Buckets :
        LET r == CreateBucket(buckets, b)
        IN /\ buckets' = r.buckets
           /\ lastOp' = [NoOp EXCEPT !.op = "create_bucket", !.bucket = b,
                                     !.found = r.found, !.result = r.result,
                                     !.netCalls = r.netCalls]
           /\ UNCHANGED <<objects, conns, engineVars, deltaVars, apiVars>>

save_raw_data ==
    \E b \in Buckets, k \in Keys, data \in ByteSeqs, length \in Lengths :
        LET r == SaveRawData(buckets, objects, b, k, data, length)
        IN /\ Cardinality(DOMAIN r.objects) <= MaxObjects
           /\ buckets' = r.buckets
           /\ objects' = r.objects
           /\ lastOp' = [NoOp EXCEPT !.op = "save_raw_data", !.bucket = b,
                                     !.key = k, !.data = data,
                                     !.length = length, !.found = r.found,
                                     !.result = r.result,
                                     !.netCalls = r.netCalls]
           /\ UNCHANGED <<conns, engineVars, deltaVars, apiVars>>

get_object_data ==
    \E b \in Buckets, k \in Keys :
    \E readOk \in IF <<b, k>> \in DOMAIN objects THEN BOOLEAN ELSE {TRUE} :
        LET r == GetObjectData(buckets, objects, b, k, readOk)
        IN /\ conns' = conns + r.opened - r.released
           /\ lastOp' = [NoOp EXCEPT !.op = "get_object_data", !.bucket = b,
                                     !.key = k, !.found = r.found,
                                     !.result = r.result,
                                     !.content = r.content,
                                     !.opened = r.opened,
                                     !.netCalls = r.netCalls]
           /\ UNCHANGED <<buckets, objects, engineVars, deltaVars, apiVars>>

read_raw_data ==
    \E fmt \in Formats, b \in Buckets, k \in Keys :
    \E readOk \in IF <<b, k>> \in DOMAIN objects THEN BOOLEAN ELSE {TRUE} :
    \E parseOk \in IF <<b, k>> \in DOMAIN objects /\ readOk
                       /\ fmt \in SupportedFormats
                    THEN BOOLEAN ELSE {TRUE} :
        LET r == ReadRawData(buckets, objects, fmt, b, k, readOk, parseOk)
        IN /\ conns' = conns + r.opened - r.released
           /\ lastOp' = [NoOp EXCEPT !.op = "read_raw_data", !.bucket = b,
                                     !.key = k, !.fmt = fmt,
                                     !.found = r.found, !.result = r.result,
                                     !.content = r.content,
                                     !.opened = r.opened,
                                     !.netCalls = r.netCalls]
           /\ UNCHANGED <<buckets, objects, engineVars, deltaVars, apiVars>>

(***************************************************************************)
(* data_operations.py : DataProcessing, the DuckDB session                 *)
(***************************************************************************)
TableNames == {"t", "u"}

\* A pandas DataFrame: a schema and rows of it, cell values written as text.
Frame(schema, rows) == [schema |-> schema, rows |-> rows]

\* The DataFrames the session and the table writer are given: one and two
\* rows, equal and different rows, three schemas of which two conflict on
\* the type of column a.
Datasets ==
    {Frame([a |-> "int"], <<[a |-> "1"]>>),
     Frame([a |-> "int"], <<[a |-> "2"]>>),
     Frame([a |-> "int"], <<[a |-> "1"], [a |-> "1"]>>),
     Frame([a |-> "str"], <<[a |-> "x"]>>),
     Frame([a |-> "str"], <<[a |-> "y"], [a |-> "x"]>>),
     Frame([a |-> "int", b |-> "str"], <<[a |-> "1", b |-> "x"]>>)}

Queries == [kind : {"select"}, from : TableNames \cup {"missing"}]
               \cup {[kind |-> "malformed", from |-> ""]}

NoSql == [op |-> "none", name |-> "", df |-> <<>>, query |-> <<>>,
          result |-> "none", out |-> <<>>]

\* connector.execute('CREATE TABLE name AS SELECT * FROM temp_df'): DuckDB
\* refuses to create a table whose name is taken.
CreateTableAs(tbls, name, df) ==
    IF name \in DOMAIN tbls
    THEN [result |-> "CatalogException", tables |-> tbls]
    ELSE [result |-> "Ok", tables |-> (name :> df) @@ tbls]

\* DataProcessing.register_dataframe issuing CREATE OR REPLACE TABLE.
RegisterDataframe_Replace(tbls, view, df, name) ==
    [result |-> "Ok", tables |-> (name :> df) @@ tbls, temp_df |-> <<>>]

\* DataProcessing.register_dataframe: register the view, create the table
\* from it, unregister the view.  An exception of CREATE TABLE leaves the
\* function before unregister.
RegisterDataframe(tbls, view, df, name) ==
    LET registered == <<df>>
        r == CreateTableAs(tbls, name, registered[1])
    IN IF r.result # "Ok"
       THEN [result |-> r.result, tables |-> r.tables, temp_df |-> registered]
       ELSE [result |-> "Ok", tables |-> r.tables, temp_df |-> <<>>]

\* DataProcessing.run_sql_query on the session's cursor.
RunSqlQuery(tbls, q) ==
    IF q.kind = "malformed" THEN [result |-> "ParserException", out |-> <<>>]
    ELSE IF q.from \in DOMAIN tbls
    THEN [result |-> "Ok", out |-> <<tbls[q.from]>>]
    ELSE [result |-> "CatalogException", out |-> <<>>]

register_dataframe ==
    \E df \in Datasets, name \in TableNames :
        LET r == RegisterDataframe(tables, temp_df, df, name)
        IN /\ tables' = r.tables
           /\ temp_df' = r.temp_df
           /\ lastSql' = [NoSql EXCEPT !.op = "register_dataframe",
                                       !.name = name, !.df = <<df>>,
                                       !.result = r.result]
           /\ UNCHANGED <<storageVars, deltaVars, apiVars>>

run_sql_query ==
    \E q \in Queries :
        LET r == RunSqlQuery(tables, q)
        IN /\ lastSql' = [NoSql EXCEPT !.op = "run_sql_query",
                                       !.query = <<q>>, !.name = q.from,
                                       !.result = r.result, !.out = r.out]
           /\ UNCHANGED <<tables, temp_df, storageVars, deltaVars, apiVars>>

(***************************************************************************)
(* data_operations.py : DataProcessing, Delta Lake tables                  *)
(***************************************************************************)
MaxCommits == 2

TablePaths == {"p1", "p2"}

\* The (write_mode, schema_mode) pairs the pipeline writes with: the
\* incremental path, the method's defaults, and overwrite with schema merge.
ModePairs == {<<"append", "merge">>, <<"overwrite", "overwrite">>,
              <<"overwrite", "merge">>}

NoDelta == [op |-> "none", path |-> "", mode |-> "", schema_mode |-> "",
            data |-> <<>>, result |-> "none", out |-> <<>>]

RECURSIVE SumLen(_, _)
SumLen(f, S) ==
    IF S = {} THEN 0
    ELSE LET x == CHOOSE y \in S : TRUE IN Len(f[x]) + SumLen(f, S \ {x})

TotalCommits(lg) == SumLen(lg, DOMAIN lg)

\* Two schemas conflict when a column they share has different types.
SchemaConflict(s1, s2) ==
    \E c \in (DOMAIN s1) \cap (DOMAIN s2) : s1[c] # s2[c]

\* The union of two schemas (the table's columns first).
MergeSchema(s1, s2) == s1 @@ s2

\* The rows of seq[i..Len(seq)] flattened into one sequence.
RECURSIVE Flatten(_, _)
Flatten(seq, i) ==
    IF i > Len(seq) THEN <<>> ELSE seq[i].rows \o Flatten(seq, i + 1)

\* The index of the last commit that removed every earlier file (1 if none).
RECURSIVE LastRemoveAll(_, _)
LastRemoveAll(lg, i) ==
    IF i <= 1 THEN 1
    ELSE IF lg[i].removeAll THEN i ELSE LastRemoveAll(lg, i - 1)

\* A row widened to a schema: columns the file does not have read as null.
Pad(row, schema) ==
    [c \in DOMAIN schema |-> IF c \in DOMAIN row THEN row[c] ELSE "null"]

Reverse(seq) == [i \in 1..Len(seq) |-> seq[Len(seq) + 1 - i]]

\* The table a reader sees: the schema of the last commit and the rows of
\* the files that are still active after replaying the log.
Snapshot(lg) ==
    LET rows == Flatten(lg, LastRemoveAll(lg, Len(lg)))
        schema == lg[Len(lg)].schema
    IN [schema |-> schema,
        rows |-> [i \in 1..Len(rows) |-> Pad(rows[i], schema)]]

\* deltalake.write_deltalake(path, data, mode, schema_mode): one atomic
\* commit appended to the table's log, or an error and no commit.
write_deltalake(lg, data, mode, schema_mode) ==
    IF lg = <<>>
    THEN [result |-> "Ok",
          log |-> <<[schema |-> data.schema, rows |-> data.rows,
                     removeAll |-> FALSE, mode |-> mode,
                     schema_mode |-> schema_mode]>>]
    ELSE LET cur == lg[Len(lg)].schema
         IN IF schema_mode = "merge"
            THEN IF SchemaConflict(cur, data.schema)
                 THEN [result |-> "SchemaMismatchError", log |-> lg]
                 ELSE [result |-> "Ok",
                       log |-> Append(lg,
                           [schema |-> MergeSchema(cur, data.schema),
                            rows |-> data.rows,
                            removeAll |-> (mode = "overwrite"),
                            mode |-> mode, schema_mode |-> schema_mode])]
            ELSE [result |-> "Ok",
                  log |-> Append(lg, [schema |-> data.schema,
                                      rows |-> data.rows,
                                      removeAll |-> (mode = "overwrite"),
                                      mode |-> mode,
                                      schema_mode |-> schema_mode])]

\* DataProcessing.save_delta_table that always appends.
SaveDeltaTable_AlwaysAppend(lg, data, write_mode, schema_mode) ==
    write_deltalake(lg, data, "append", "merge")

\* DataProcessing.save_delta_table that always overwrites data and schema.
SaveDeltaTable_AlwaysOverwrite(lg, data, write_mode, schema_mode) ==
    write_deltalake(lg, data, "overwrite", "overwrite")

\* DataProcessing.save_delta_table: forwards the DataFrame and both modes.
SaveDeltaTable(lg, data, write_mode, schema_mode) ==
    write_deltalake(lg, data, write_mode, schema_mode)

\* DataProcessing.read_delta_table: DeltaTable(path).to_pandas().  The files
\* are read in log order or in the opposite order.
ReadDeltaTable(lg, reversed) ==
    IF lg = <<>> THEN [result |-> "TableNotFoundError", out |-> <<>>]
    ELSE LET snap == Snapshot(lg)
         IN [result |-> "Ok",
             out |-> <<[schema |-> snap.schema,
                        rows |-> IF reversed THEN Reverse(snap.rows)
                                 ELSE snap.rows]>>]

save_delta_table ==
    \E path \in TablePaths, mp \in ModePairs, data \in Datasets :
        LET r == SaveDeltaTable(log[path], data, mp[1], mp[2])
        IN /\ r.result = "Ok" => TotalCommits(log) < MaxCommits
           /\ log' = [log EXCEPT ![path] = r.log]
           /\ lastDelta' = [NoDelta EXCEPT !.op = "save_delta_table",
                                           !.path = path, !.mode = mp[1],
                                           !.schema_mode = mp[2],
                                           !.data = <<data>>,
                                           !.result = r.result]
           /\ UNCHANGED <<storageVars, engineVars, apiVars>>

read_delta_table ==
    \E path \in TablePaths, reversed \in BOOLEAN :
        LET r == ReadDeltaTable(log[path], reversed)
        IN /\ lastDelta' = [NoDelta EXCEPT !.op = "read_delta_table",
                                           !.path = path,
                                           !.result = r.result,
                                           !.out = r.out]
           /\ UNCHANGED <<log, storageVars, engineVars, apiVars>>

(***************************************************************************)
(* src/api.py : CoinGeckoAPIClient                                         *)
(***************************************************************************)
StatusCodes == 200..599

Endpoints == {"ping", "coins/list"}

NoApi == [op |-> "none", endpoint |-> "", sent |-> FALSE, status |-> 0,
          outcome |-> "none", value |-> "", exc |-> ""]

\* requests.Response.raise_for_status(): raises for 4xx and 5xx only.
raise_for_status(status) ==
    IF 400 <= status /\ status < 600 THEN "HTTPError" ELSE ""

\* CoinGeckoAPIClient._handle_response.  jsonOk: whether the body decodes.
\* After a raise_for_status() that does not raise, the function ends and
\* returns None.
HandleResponse(status, jsonOk) ==
    IF status = 200
    THEN IF jsonOk THEN [outcome |-> "return", value |-> "json", exc |-> ""]
         ELSE [outcome |-> "raise", value |-> "", exc |-> "JSONDecodeError"]
    ELSE LET e == raise_for_status(status)
         IN IF e # "" THEN [outcome |-> "raise", value |-> "", exc |-> e]
            ELSE [outcome |-> "return", value |-> "None", exc |-> ""]

\* The exceptions `except requests.exceptions.RequestException` catches.
\* jsonIsRequestException: whether the installed requests derives its
\* JSONDecodeError from RequestException.
IsRequestException(exc, jsonIsRequestException) ==
    \/ exc \in {"HTTPError", "ConnectionError", "Timeout"}
    \/ exc = "JSONDecodeError" /\ jsonIsRequestException

\* CoinGeckoAPIClient.get_data.  transport = "" when requests.get returns a
\* response, else the exception it raises.
GetData(transport, status, jsonOk, jsonIsRequestException) ==
    LET r == IF transport # ""
             THEN [outcome |-> "raise", value |-> "", exc |-> transport]
             ELSE HandleResponse(status, jsonOk)
    IN IF r.outcome = "raise"
          /\ IsRequestException(r.exc, jsonIsRequestException)
       THEN [outcome |-> "raise", value |-> "", exc |-> "SystemExit"]
       ELSE r

get_data ==
    \E endpoint \in Endpoints, transport \in {"", "ConnectionError", "Timeout"} :
    \E status \in IF transport = "" THEN StatusCodes ELSE {0} :
    \E jsonOk \in IF status = 200 THEN BOOLEAN ELSE {TRUE} :
    \E jre \in IF jsonOk THEN {TRUE} ELSE BOOLEAN :
        LET r == GetData(transport, status, jsonOk, jre)
        IN /\ lastApi' = [NoApi EXCEPT !.op = "get_data",
                                       !.endpoint = endpoint,
                                       !.sent = (transport = ""),
                                       !.status = IF transport = "" THEN status
                                                  ELSE 0,
                                       !.outcome = r.outcome,
                                       !.value = r.value, !.exc = r.exc]
           /\ UNCHANGED <<storageVars, engineVars, deltaVars>>

(***************************************************************************)
(* Specifications                                                          *)
(***************************************************************************)
Init ==
    /\ buckets = {}
    /\ objects = <<>>
    /\ conns = 0
    /\ lastOp = NoOp
    /\ tables = <<>>
    /\ temp_df = <<>>
    /\ lastSql = NoSql
    /\ log = [p \in TablePaths |-> <<>>]
    /\ lastDelta = NoDelta
    /\ lastApi = NoApi

NextStorage ==
    \/ create_bucket
    \/ save_raw_data
    \/ get_object_data
    \/ read_raw_data

NextEngine ==
    \/ register_dataframe
    \/ run_sql_query

NextDelta ==
    \/ save_delta_table
    \/ read_delta_table

NextApi == get_data

SpecStorage == Init /\ [][NextStorage]_vars

SpecEngine == Init /\ [][NextEngine]_vars

SpecDelta == Init /\ [][NextDelta]_vars

SpecApi == Init /\ [][NextApi]_vars

(***************************************************************************)
(* Properties                                                              *)
(***************************************************************************)
Range(seq) == {seq[i] : i \in DOMAIN seq}

Count(seq, r) == Cardinality({i \in DOMAIN seq : seq[i] = r})

\* Two row sequences hold the same rows the same number of times.
SameRows(s1, s2) ==
    /\ Len(s1) = Len(s2)
    /\ \A r \in Range(s1) \cup Range(s2) : Count(s1, r) = Count(s2, r)

\* C1 (as claimed): read_raw_data with a format outside csv/parquet/json
\* fails with the unsupported-format error and has made no object-store call.
C1_RejectedBeforeIO ==
    (lastOp.op = "read_raw_data" /\ lastOp.fmt \notin SupportedFormats)
        => (lastOp.result = "ValueError" /\ lastOp.netCalls = <<>>)

C3_MissingBucketFails ==
    [][(/\ lastOp'.op \in {"get_object_data", "save_raw_data"}
        /\ lastOp'.bucket \notin buckets)
          => (/\ lastOp'.result = "BucketNotFound"
              /\ buckets' = buckets
              /\ objects' = objects)]_vars

C3_Witness ==
    /\ lastOp.op = "save_raw_data"
    /\ lastOp.result = "BucketNotFound"
    /\ lastOp.bucket \notin buckets
    /\ lastOp.data # <<>>
    /\ objects # <<>>

\* C4: create_bucket never fails and leaves the bucket present; on a bucket
\* that already exists it changes neither the bucket set nor any object, so
\* a second create_bucket right after the first is a no-op.
C4_CreateBucketIdempotent ==
    [][lastOp'.op = "create_bucket"
          => (/\ lastOp'.result = "Ok"
              /\ buckets' = buckets \cup {lastOp'.bucket}
              /\ lastOp'.bucket \in buckets => buckets' = buckets
              /\ objects' = objects)]_vars

C4_Witness ==
    /\ lastOp.op = "create_bucket"
    /\ lastOp.found
    /\ lastOp.result = "Ok"
    /\ lastOp.bucket \in buckets

\* C5: after save_raw_data(b, k, data, len, type) has succeeded, with len the
\* number of bytes of data, the next get_object_data(b, k) finds the object
\* and returns exactly the bytes of data.
C5_RoundTrip ==
    [][(/\ lastOp.op = "save_raw_data"
        /\ lastOp.result = "Ok"
        /\ lastOp.length = Len(lastOp.data)
        /\ lastOp'.op = "get_object_data"
        /\ lastOp'.bucket = lastOp.bucket
        /\ lastOp'.key = lastOp.key)
          => (/\ lastOp'.result \in {"Ok", "ReadError"}
              /\ lastOp'.result = "Ok" => lastOp'.content = lastOp.data)]_vars

C5_Witness ==
    /\ lastOp.op = "get_object_data"
    /\ lastOp.result = "Ok"
    /\ lastOp.content # <<>>
    /\ objects[<<lastOp.bucket, lastOp.key>>] = lastOp.content

\* C6: a write under schema mode merge whose column type conflicts with the
\* table's schema fails with the schema error and commits nothing; the read
\* that follows on a table made by one earlier write of A returns exactly
\* A's schema and rows.
C6_ConflictingMergeRejected ==
    [][/\ (/\ lastDelta'.op = "save_delta_table"
           /\ lastDelta'.schema_mode = "merge"
           /\ log[lastDelta'.path] # <<>>
           /\ SchemaConflict(
                  log[lastDelta'.path][Len(log[lastDelta'.path])].schema,
                  lastDelta'.data[1].schema))
            => (lastDelta'.result = "SchemaMismatchError" /\ log' = log)
       /\ (/\ lastDelta.op = "save_delta_table"
           /\ lastDelta.result = "SchemaMismatchError"
           /\ lastDelta'.op = "read_delta_table"
           /\ lastDelta'.path = lastDelta.path
           /\ Len(log[lastDelta.path]) = 1)
            => (/\ lastDelta'.result = "Ok"
                /\ lastDelta'.out[1].schema = log[lastDelta.path][1].schema
                /\ SameRows(lastDelta'.out[1].rows,
                            log[lastDelta.path][1].rows))]_vars

C6_Witness ==
    /\ lastDelta.op = "save_delta_table"
    /\ lastDelta.mode = "append"
    /\ lastDelta.schema_mode = "merge"
    /\ lastDelta.result = "SchemaMismatchError"
    /\ Len(log[lastDelta.path]) = 1
    /\ log[lastDelta.path][1].mode = "append"
    /\ log[lastDelta.path][1].schema_mode = "merge"

\* C7: the read that follows a successful (overwrite, overwrite) write of B
\* returns B's schema and exactly B's rows, whatever the table held before.
C7_OverwriteTotal ==
    [][(/\ lastDelta.op = "save_delta_table"
        /\ lastDelta.mode = "overwrite"
        /\ lastDelta.schema_mode = "overwrite"
        /\ lastDelta'.op = "read_delta_table"
        /\ lastDelta'.path = lastDelta.path)
          => (/\ lastDelta.result = "Ok"
              /\ lastDelta'.result = "Ok"
              /\ lastDelta'.out[1].schema = lastDelta.data[1].schema
              /\ SameRows(lastDelta'.out[1].rows, lastDelta.data[1].rows))]_vars

C7_Witness ==
    /\ lastDelta.op = "read_delta_table"
    /\ lastDelta.result = "Ok"
    /\ Len(log[lastDelta.path]) = 2
    /\ \A i \in 1..2 : /\ log[lastDelta.path][i].mode = "overwrite"
                       /\ log[lastDelta.path][i].schema_mode = "overwrite"
    /\ log[lastDelta.path][1].rows # log[lastDelta.path][2].rows
    /\ lastDelta.out[1].rows = log[lastDelta.path][2].rows

\* C8: when a table made by one write of A has received an (append, merge)
\* write of B with A's schema, the read that follows returns every row of A
\* and of B as often as the two inputs hold it.
C8_AppendUnion ==
    [][(/\ lastDelta.op = "save_delta_table"
        /\ lastDelta.mode = "append"
        /\ lastDelta.schema_mode = "merge"
        /\ log[lastDelta.path] # <<>>
        /\ lastDelta.result = "Ok"
        /\ Len(log[lastDelta.path]) = 2
        /\ log[lastDelta.path][1].schema = lastDelta.data[1].schema
        /\ lastDelta'.op = "read_delta_table"
        /\ lastDelta'.path = lastDelta.path)
          => (/\ lastDelta'.result = "Ok"
              /\ lastDelta'.out[1].schema = lastDelta.data[1].schema
              /\ SameRows(lastDelta'.out[1].rows,
                          log[lastDelta.path][1].rows
                              \o lastDelta.data[1].rows))]_vars

C8_Witness ==
    /\ lastDelta.op = "read_delta_table"
    /\ lastDelta.result = "Ok"
    /\ Len(log[lastDelta.path]) = 2
    /\ \A i \in 1..2 : /\ log[lastDelta.path][i].mode = "append"
                       /\ log[lastDelta.path][i].schema_mode = "merge"
    /\ log[lastDelta.path][1].schema = log[lastDelta.path][2].schema
    /\ log[lastDelta.path][1].rows = log[lastDelta.path][2].rows
    /\ Len(lastDelta.out[1].rows) = 2 * Len(log[lastDelta.path][1].rows)

\* C9: no response opened by get_object_data stays open once the call has
\* returned or raised, also when reading the body raised.
C9_TransportReleased == conns = 0

C9_Witness ==
    /\ lastOp.op = "get_object_data"
    /\ lastOp.opened = 1
    /\ lastOp.result = "ReadError"
    /\ conns = 0

\* C10 (as claimed): a response whose status is not 200 makes get_data raise
\* an HTTP-level error (HTTPError / RequestException) and never return.
C10_Non200Raises ==
    (lastApi.op = "get_data" /\ lastApi.sent /\ lastApi.status # 200)
        => (/\ lastApi.outcome = "raise"
            /\ lastApi.exc \in {"HTTPError", "RequestException"})

====
